---- MODULE Spec2Model ----
(***************************************************************************)
(* Model of the kss interactive dashboard (internal/tui) and of the        *)
(* doctor rule engine (internal/doctor).                                   *)
(*                                                                         *)
(* The dashboard is a bubbletea program: Model.Update is called with one   *)
(* message at a time and returns the new Model and a command.  A command   *)
(* is run by the runtime outside the loop and its result is posted back as *)
(* a message, so FetchLogs/FetchEvents/FetchDoctor complete in any order,  *)
(* and tea.Quit is itself a command whose QuitMsg ends the loop when it is *)
(* delivered.                                                              *)
(***************************************************************************)
EXTENDS Integers, Sequences, FiniteSets, TLC

VARIABLES
    list,            \* Model.list: [items, index, width, height]
    viewport,        \* Model.viewport (Logs): [Width, Height, content]
    eventsViewport,  \* Model.eventsViewport: [Width, Height, content]
    doctorViewport,  \* Model.doctorViewport: [Width, Height, content]
    ready,           \* Model.ready
    width,           \* Model.width
    height,          \* Model.height
    activeTab,       \* Model.activeTab
    err,             \* Model.err
    ChosenItem,      \* Model.ChosenItem
    doctorResults,   \* Model.doctorResults
    isDoctorLoading, \* Model.isDoctorLoading
    focusedPane,     \* Model.focusedPane
    running,         \* the event loop has not returned yet
    quitPending,     \* a tea.Quit command was returned and its QuitMsg is not delivered yet
    resPending,      \* the FetchResources command of Init has not completed yet
    inflight,        \* fetch commands returned by Update whose message is not delivered yet
    nextReq,         \* number of the next fetch command
    hist,            \* history: what has been requested and handled so far
    doc              \* the doctor engine: the container status under analysis and its issues

dash == <<list, viewport, eventsViewport, doctorViewport, ready, width, height,
          activeTab, err, ChosenItem, doctorResults, isDoctorLoading, focusedPane,
          running, quitPending, resPending, inflight, nextReq, hist>>

vars == <<dash, doc>>

----------------------------------------------------------------------------
(* Bounds *)

MaxItems == 1
\* Number of fetch commands in a run, and in a run of the freshness specification.
MaxFetch == 1
MaxRaceFetch == 2
\* Number of listed resources in a run of the selection specification.
MaxSelectItems == 2
\* Number of lines of a successfully fetched tab content.
ContentLines == 1
\* Largest terminal size of the layout specification.
MaxWidth == 100
MaxHeight == 30
\* Largest restart count of a container under analysis.
MaxRestarts == 4
\* Number of phrases of a log text under analysis.
MaxWords == 2
\* Number of events of a pod, of TaskRuns of a PipelineRun, and of events of
\* each source of a TaskRun.
MaxEvents == 3
MaxTaskRuns == 2
MaxTaskEvents == 1
MaxTimelineEvents == 2

----------------------------------------------------------------------------
(* Constants of internal/tui/tui.go *)

paneList == 0
paneDetails == 1

tabOverview == 0
tabLogs == 1
tabEvents == 2
tabDoctor == 3

minListWidth == 30
minDetailsWidth == 40
minHeight == 10
minViewportHeight == 5
tabCount == 4

\* nil of a list.Item (items are named 1, 2, ...), of an error and of *DoctorResults
Nil == 0
NoError == "nil"
NoResults == [req |-> 0, item |-> 0]

Max(a, b) == IF a < b THEN b ELSE a
Min(a, b) == IF a < b THEN a ELSE b

\* Terminal sizes delivered by the runtime while the dashboard is used.
Sizes == {<<100, 30>>, <<60, 9>>}

\* Resource lists the cluster may return: the names 1..n.
ListsUpTo(max) == {[i \in 1..n |-> i] : n \in 0..max}
ItemLists == ListsUpTo(MaxItems)

----------------------------------------------------------------------------
(* The list widget *)

\* list.Model.SelectedItem: nil when the list is empty or the index is out of range.
SelectedItem(l) ==
    IF l.index < 0 \/ Len(l.items) = 0 \/ Len(l.items) <= l.index
    THEN Nil
    ELSE l.items[l.index + 1]

\* list.Model.Update for a cursor key: the selection moves by one and stays in range.
ListUpdate(l, key) ==
    CASE key = "down" -> [l EXCEPT !.index = Max(0, Min(l.index + 1, Len(l.items) - 1))]
      [] key = "up" -> [l EXCEPT !.index = Max(0, l.index - 1)]
      [] OTHER -> l

----------------------------------------------------------------------------
(* The viewport widget *)

\* Number of lines of a content: nothing, a one-line error text, or a fetched text.
Lines(content) ==
    CASE content.kind = "empty" -> 0
      [] content.kind = "err" -> 1
      [] OTHER -> ContentLines

\* viewport.Model.maxYOffset
maxYOffset(vp) == Max(0, Lines(vp.content) - vp.Height)

\* viewport.Model.SetContent: the text is replaced; an offset past the last line
\* is moved to the bottom.
SetContent(vp, content) ==
    LET v == [vp EXCEPT !.content = content]
    IN IF v.YOffset > Lines(content) - 1
       THEN [v EXCEPT !.YOffset = maxYOffset(v)]
       ELSE v

\* viewport.Model.Update for a cursor key: scroll by one line within the content.
ViewportUpdate(vp, key) ==
    CASE key = "down" /\ vp.YOffset < maxYOffset(vp) /\ Lines(vp.content) > 0 ->
            [vp EXCEPT !.YOffset = Max(0, Min(vp.YOffset + 1, maxYOffset(vp)))]
      [] key = "up" /\ vp.YOffset > 0 /\ Lines(vp.content) > 0 ->
            [vp EXCEPT !.YOffset = Max(0, Min(vp.YOffset - 1, maxYOffset(vp)))]
      [] OTHER -> vp

----------------------------------------------------------------------------
(* Commands *)

\* The message kind of the fetch that loadTabContent returns for a tab.
FetchKind(tab) ==
    CASE tab = tabLogs -> "LogsMsg"
      [] tab = tabEvents -> "EventsMsg"
      [] tab = tabDoctor -> "DoctorMsg"
      [] OTHER -> "none"

\* loadTabContent has a value receiver: the assignments to isDoctorLoading and
\* doctorResults are made on its own copy of the Model and are lost; what
\* remains is the command it returns.
loadTabContent(tab, item) ==
    IF FetchKind(tab) = "none"
    THEN {}
    ELSE {[kind |-> FetchKind(tab), item |-> item, id |-> nextReq]}

TabCmds_noItemCheck(tab) == loadTabContent(tab, SelectedItem(list))
\* The commands Update returns for a key that selects a tab.
TabCmds(tab) ==
    IF SelectedItem(list) # Nil THEN loadTabContent(tab, SelectedItem(list)) ELSE {}

Schedule(cmds) ==
    /\ Cardinality(cmds) > 0 => nextReq <= hist.budget
    /\ inflight' = inflight \cup cmds
    /\ nextReq' = nextReq + Cardinality(cmds)

\* hist.requested[k]: number of the fetch of kind k requested last (0: none).
NoteRequested(h, cmds) ==
    [h EXCEPT !.requested = [k \in DOMAIN h.requested |->
        IF \E c \in cmds : c.kind = k THEN (CHOOSE c \in cmds : c.kind = k).id
        ELSE h.requested[k]]]

\* hist.track names the history a specification records besides the
\* requests: "last" the message handled last, "tabs" the run of cycle-tab
\* keys, "quit" whether a quit key was handled.
Record(h, m) == IF h.track = "last" THEN [h EXCEPT !.last = m] ELSE h

----------------------------------------------------------------------------
(* Strings: a Go string is the sequence of its characters *)

Upper == <<"A", "B", "C", "D", "E", "F", "G", "H", "I", "J", "K", "L", "M", "N", "O", "P", "Q", "R", "S", "T", "U", "V", "W", "X", "Y", "Z">>
Lower == <<"a", "b", "c", "d", "e", "f", "g", "h", "i", "j", "k", "l", "m", "n", "o", "p", "q", "r", "s", "t", "u", "v", "w", "x", "y", "z">>
Digits == <<"0", "1", "2", "3", "4", "5", "6", "7", "8", "9">>

\* strings.ToLower
LowerChar(c) ==
    IF \E i \in 1..26 : Upper[i] = c
    THEN Lower[CHOOSE i \in 1..26 : Upper[i] = c]
    ELSE c
ToLower(str) == [i \in 1..Len(str) |-> LowerChar(str[i])]

\* strings.Contains
Contains(str, sub) ==
    \E i \in 1..(Len(str) - Len(sub) + 1) : SubSeq(str, i, i + Len(sub) - 1) = sub

\* The %d verb of fmt.Sprintf for a natural number.
RECURSIVE Itoa(_)
Itoa(n) == IF n < 10 THEN <<Digits[n + 1]>> ELSE Itoa(n \div 10) \o <<Digits[(n % 10) + 1]>>

----------------------------------------------------------------------------
(* internal/doctor: AnalyzeContainerState *)

issueOOMKilled == <<"L", "i", "k", "e", "l", "y", " ", "O", "O", "M", "K", "i", "l", "l", "e", "d", " ", "(", "O", "u", "t", " ", "o", "f", " ", "M", "e", "m", "o", "r", "y", ")", ".", " ", "Y", "o", "u", "r", " ", "c", "o", "n", "t", "a", "i", "n", "e", "r", " ", "e", "x", "c", "e", "e", "d", "e", "d", " ", "i", "t", "s", " ", "m", "e", "m", "o", "r", "y", " ", "l", "i", "m", "i", "t", "s", ".">>
issueCrashedPrefix == <<"A", "p", "p", "l", "i", "c", "a", "t", "i", "o", "n", " ", "c", "r", "a", "s", "h", "e", "d", " ", "(", "E", "x", "i", "t", " ", "C", "o", "d", "e", " ">>
issueCrashedSuffix == <<")", ".", " ", "T", "h", "i", "s", " ", "i", "s", " ", "u", "s", "u", "a", "l", "l", "y", " ", "a", "n", " ", "i", "n", "t", "e", "r", "n", "a", "l", " ", "a", "p", "p", "l", "i", "c", "a", "t", "i", "o", "n", " ", "e", "r", "r", "o", "r", ".">>
issueCommandNotFound == <<"C", "o", "m", "m", "a", "n", "d", " ", "n", "o", "t", " ", "f", "o", "u", "n", "d", ".", " ", "C", "h", "e", "c", "k", " ", "y", "o", "u", "r", " ", "c", "o", "n", "t", "a", "i", "n", "e", "r", "'", "s", " ", "e", "n", "t", "r", "y", "p", "o", "i", "n", "t", " ", "o", "r", " ", "c", "o", "m", "m", "a", "n", "d", ".">>
issuePullImage == <<"F", "a", "i", "l", "e", "d", " ", "t", "o", " ", "p", "u", "l", "l", " ", "i", "m", "a", "g", "e", ".", " ", "C", "h", "e", "c", "k", " ", "i", "f", " ", "t", "h", "e", " ", "i", "m", "a", "g", "e", " ", "n", "a", "m", "e", "/", "t", "a", "g", " ", "i", "s", " ", "c", "o", "r", "r", "e", "c", "t", " ", "a", "n", "d", " ", "i", "f", " ", "t", "h", "e", " ", "r", "e", "g", "i", "s", "t", "r", "y", " ", "r", "e", "q", "u", "i", "r", "e", "s", " ", "a", "u", "t", "h", "e", "n", "t", "i", "c", "a", "t", "i", "o", "n", ".">>
issueCrashLoop == <<"C", "o", "n", "t", "a", "i", "n", "e", "r", " ", "i", "s", " ", "c", "r", "a", "s", "h", "i", "n", "g", " ", "r", "e", "p", "e", "a", "t", "e", "d", "l", "y", ".", " ", "C", "h", "e", "c", "k", " ", "a", "p", "p", "l", "i", "c", "a", "t", "i", "o", "n", " ", "l", "o", "g", "s", " ", "f", "o", "r", " ", "e", "r", "r", "o", "r", "s", " ", "d", "u", "r", "i", "n", "g", " ", "s", "t", "a", "r", "t", "u", "p", ".">>
issueConfigError == <<"C", "o", "n", "f", "i", "g", "u", "r", "a", "t", "i", "o", "n", " ", "e", "r", "r", "o", "r", ".", " ", "L", "i", "k", "e", "l", "y", " ", "a", " ", "m", "i", "s", "s", "i", "n", "g", " ", "C", "o", "n", "f", "i", "g", "M", "a", "p", " ", "o", "r", " ", "S", "e", "c", "r", "e", "t", ".">>

\* A nil *TerminatedState, *WaitingState and *ContainerState.
NilTerminated == [nil |-> TRUE, ExitCode |-> 0]
NilWaiting == [nil |-> TRUE, Reason |-> ""]
NilLastState == [nil |-> TRUE, Terminated |-> NilTerminated]

\* checkTerminated: the switch on the exit code.
checkTerminated(state) ==
    IF state.nil THEN <<>>
    ELSE CASE state.ExitCode = 137 -> <<issueOOMKilled>>
           [] state.ExitCode \in {1, 2} ->
                <<issueCrashedPrefix \o Itoa(state.ExitCode) \o issueCrashedSuffix>>
           [] state.ExitCode = 127 -> <<issueCommandNotFound>>
           [] OTHER -> <<>>

TerminatedIssues_both(container) ==
    checkTerminated(container.State.Terminated)
        \o (IF container.LastState.nil THEN <<>>
            ELSE checkTerminated(container.LastState.Terminated))

\* The termination consulted: the current one, else the one of the last state.
TerminatedIssues(container) ==
    IF ~container.State.Terminated.nil
    THEN checkTerminated(container.State.Terminated)
    ELSE IF ~container.LastState.nil /\ ~container.LastState.Terminated.nil
    THEN checkTerminated(container.LastState.Terminated)
    ELSE <<>>

WaitingIssues_firstCaseOnly(container) ==
    IF container.State.Waiting.nil THEN <<>>
    ELSE CASE container.State.Waiting.Reason = "ImagePullBackOff" -> <<issuePullImage>>
           [] container.State.Waiting.Reason = "CrashLoopBackOff" -> <<issueCrashLoop>>
           [] container.State.Waiting.Reason = "CreateContainerConfigError" ->
                <<issueConfigError>>
           [] OTHER -> <<>>

\* The switch on the waiting reason.
WaitingIssues(container) ==
    IF container.State.Waiting.nil THEN <<>>
    ELSE CASE container.State.Waiting.Reason \in {"ImagePullBackOff", "ErrImagePull"} ->
                <<issuePullImage>>
           [] container.State.Waiting.Reason = "CrashLoopBackOff" -> <<issueCrashLoop>>
           [] container.State.Waiting.Reason = "CreateContainerConfigError" ->
                <<issueConfigError>>
           [] OTHER -> <<>>

AnalyzeContainerState(container) == TerminatedIssues(container) \o WaitingIssues(container)

\* Container statuses given to the engine.
ExitCodes == {0, 1, 2, 3, 127, 137, 143}
Reasons == {"ImagePullBackOff", "ErrImagePull", "CrashLoopBackOff",
            "CreateContainerConfigError", "ContainerCreating", "PodInitializing"}
TerminatedStates == {NilTerminated} \cup {[nil |-> FALSE, ExitCode |-> e] : e \in ExitCodes}
WaitingStates == {NilWaiting} \cup {[nil |-> FALSE, Reason |-> r] : r \in Reasons}
LastStates == {NilLastState} \cup {[nil |-> FALSE, Terminated |-> t] : t \in TerminatedStates}
ContainerStatuses ==
    [State : [Terminated : TerminatedStates, Waiting : WaitingStates, Running : BOOLEAN],
     LastState : LastStates,
     RestartCount : 0..MaxRestarts]

NoDoc == [phase |-> "none"]

----------------------------------------------------------------------------
(* internal/doctor: AnalyzeLogs *)

issueNetwork == <<"N", "e", "t", "w", "o", "r", "k", " ", "e", "r", "r", "o", "r", " ", "d", "e", "t", "e", "c", "t", "e", "d", " ", "(", "C", "o", "n", "n", "e", "c", "t", "i", "o", "n", " ", "R", "e", "f", "u", "s", "e", "d", ")", ".", " ", "C", "h", "e", "c", "k", " ", "i", "f", " ", "d", "e", "p", "e", "n", "d", "e", "n", "t", " ", "s", "e", "r", "v", "i", "c", "e", "s", " ", "a", "r", "e", " ", "r", "e", "a", "c", "h", "a", "b", "l", "e", ".">>
issueTimeout == <<"T", "i", "m", "e", "o", "u", "t", " ", "d", "e", "t", "e", "c", "t", "e", "d", ".", " ", "A", " ", "s", "e", "r", "v", "i", "c", "e", " ", "o", "r", " ", "r", "e", "s", "o", "u", "r", "c", "e", " ", "m", "i", "g", "h", "t", " ", "b", "e", " ", "s", "l", "o", "w", " ", "o", "r", " ", "u", "n", "r", "e", "a", "c", "h", "a", "b", "l", "e", ".">>
issuePermission == <<"P", "e", "r", "m", "i", "s", "s", "i", "o", "n", " ", "d", "e", "n", "i", "e", "d", ".", " ", "C", "h", "e", "c", "k", " ", "t", "h", "e", " ", "P", "o", "d", "'", "s", " ", "S", "e", "c", "u", "r", "i", "t", "y", "C", "o", "n", "t", "e", "x", "t", " ", "o", "r", " ", "f", "i", "l", "e", " ", "s", "y", "s", "t", "e", "m", " ", "p", "e", "r", "m", "i", "s", "s", "i", "o", "n", "s", ".">>
issueMissingFile == <<"M", "i", "s", "s", "i", "n", "g", " ", "f", "i", "l", "e", " ", "o", "r", " ", "c", "o", "n", "f", "i", "g", "u", "r", "a", "t", "i", "o", "n", ".", " ", "C", "h", "e", "c", "k", " ", "y", "o", "u", "r", " ", "v", "o", "l", "u", "m", "e", " ", "m", "o", "u", "n", "t", "s", " ", "a", "n", "d", " ", "C", "o", "n", "f", "i", "g", "M", "a", "p", "s", ".">>

patConnectionRefused == <<"c", "o", "n", "n", "e", "c", "t", "i", "o", "n", " ", "r", "e", "f", "u", "s", "e", "d">>
patDialTcp == <<"d", "i", "a", "l", " ", "t", "c", "p">>
patTimeout == <<"t", "i", "m", "e", "o", "u", "t">>
patDeadlineExceeded == <<"d", "e", "a", "d", "l", "i", "n", "e", " ", "e", "x", "c", "e", "e", "d", "e", "d">>
patPermissionDenied == <<"p", "e", "r", "m", "i", "s", "s", "i", "o", "n", " ", "d", "e", "n", "i", "e", "d">>
patForbidden == <<"f", "o", "r", "b", "i", "d", "d", "e", "n">>
patNotFound == <<"n", "o", "t", " ", "f", "o", "u", "n", "d">>
patConfig == <<"c", "o", "n", "f", "i", "g">>
patFile == <<"f", "i", "l", "e">>

\* The four rules, applied to the text as given and in the order of the code.
LogRules(text) ==
    (IF Contains(text, patConnectionRefused) \/ Contains(text, patDialTcp)
     THEN <<issueNetwork>> ELSE <<>>)
    \o (IF Contains(text, patTimeout) \/ Contains(text, patDeadlineExceeded)
        THEN <<issueTimeout>> ELSE <<>>)
    \o (IF Contains(text, patPermissionDenied) \/ Contains(text, patForbidden)
        THEN <<issuePermission>> ELSE <<>>)
    \o (IF Contains(text, patNotFound) /\ (Contains(text, patConfig) \/ Contains(text, patFile))
        THEN <<issueMissingFile>> ELSE <<>>)

AnalyzeLogs_caseSensitive(logs) == IF logs = <<>> THEN <<>> ELSE LogRules(logs)
\* AnalyzeLogs: nothing for the empty text, else the rules on strings.ToLower(logs).
AnalyzeLogs(logs) == IF logs = <<>> THEN <<>> ELSE LogRules(ToLower(logs))

\* Log texts given to the engine: up to MaxWords phrases separated by a
\* blank, each phrase in lower or in upper case.
wordStarted == <<"s", "e", "r", "v", "e", "r", " ", "s", "t", "a", "r", "t", "e", "d">>
LogWords == <<patConnectionRefused, patDialTcp, patTimeout, patDeadlineExceeded,
              patPermissionDenied, patForbidden, patNotFound, patConfig, patFile,
              wordStarted>>

UpperChar(c) ==
    IF \E i \in 1..26 : Lower[i] = c
    THEN Upper[CHOOSE i \in 1..26 : Lower[i] = c]
    ELSE c
ToUpper(str) == [i \in 1..Len(str) |-> UpperChar(str[i])]

LogPhrases == [w : 1..Len(LogWords), upper : BOOLEAN]
PhraseLists == UNION {[1..n -> LogPhrases] : n \in 0..MaxWords}
PhraseText(p) == IF p.upper THEN ToUpper(LogWords[p.w]) ELSE LogWords[p.w]

RECURSIVE LogText(_)
LogText(ps) ==
    IF Len(ps) = 0 THEN <<>>
    ELSE IF Len(ps) = 1 THEN PhraseText(ps[1])
    ELSE PhraseText(ps[1]) \o <<" ">> \o LogText(Tail(ps))

----------------------------------------------------------------------------
(* internal/tui: the Doctor analysis of a pod *)

SeverityCritical == "Critical"
SeverityWarning == "Warning"
SeverityInfo == "Info"

kwOOMKilled == <<"o", "o", "m", "k", "i", "l", "l", "e", "d">>
kwImagePullBackOff == <<"i", "m", "a", "g", "e", "p", "u", "l", "l", "b", "a", "c", "k", "o", "f", "f">>
kwErrImagePull == <<"e", "r", "r", "i", "m", "a", "g", "e", "p", "u", "l", "l">>
kwCrashLoopBackOff == <<"c", "r", "a", "s", "h", "l", "o", "o", "p", "b", "a", "c", "k", "o", "f", "f">>
kwCreateContainerConfigError == <<"c", "r", "e", "a", "t", "e", "c", "o", "n", "t", "a", "i", "n", "e", "r", "c", "o", "n", "f", "i", "g", "e", "r", "r", "o", "r">>
kwExitCode == <<"e", "x", "i", "t", " ", "c", "o", "d", "e">>
kwCommandNotFound == <<"c", "o", "m", "m", "a", "n", "d", " ", "n", "o", "t", " ", "f", "o", "u", "n", "d">>
kwMissingFile == <<"m", "i", "s", "s", "i", "n", "g", " ", "f", "i", "l", "e">>

\* categorizeAndRemediate: the severity of a container state issue.
categorizeAndRemediate(issue) ==
    LET issueLower == ToLower(issue)
    IN  IF Contains(issueLower, kwOOMKilled) THEN SeverityCritical
        ELSE IF Contains(issueLower, kwImagePullBackOff) \/ Contains(issueLower, kwErrImagePull)
        THEN SeverityCritical
        ELSE IF Contains(issueLower, kwCrashLoopBackOff) THEN SeverityCritical
        ELSE IF Contains(issueLower, kwCreateContainerConfigError) THEN SeverityCritical
        ELSE IF Contains(issueLower, kwExitCode) THEN SeverityWarning
        ELSE IF Contains(issueLower, kwCommandNotFound) THEN SeverityWarning
        ELSE SeverityInfo

\* categorizeLogIssue: the severity of a log issue.
categorizeLogIssue(issue) ==
    LET issueLower == ToLower(issue)
    IN  IF Contains(issueLower, patConnectionRefused) \/ Contains(issueLower, patDialTcp)
        THEN SeverityWarning
        ELSE IF Contains(issueLower, patTimeout) \/ Contains(issueLower, patDeadlineExceeded)
        THEN SeverityWarning
        ELSE IF Contains(issueLower, patPermissionDenied) \/ Contains(issueLower, patForbidden)
        THEN SeverityWarning
        ELSE IF Contains(issueLower, kwMissingFile) \/ Contains(issueLower, patNotFound)
        THEN SeverityWarning
        ELSE SeverityInfo

shouldAnalyzeLogs_always(container) == TRUE
shouldAnalyzeLogs_never(container) == FALSE
\* shouldAnalyzeLogs
shouldAnalyzeLogs(container) ==
    \/ ~container.State.Terminated.nil
    \/ container.RestartCount > 0
    \/ (~container.State.Waiting.nil /\ container.State.Waiting.Reason = "CrashLoopBackOff")

msgRestartedPrefix == <<"C", "o", "n", "t", "a", "i", "n", "e", "r", " ", "h", "a", "s", " ", "r", "e", "s", "t", "a", "r", "t", "e", "d", " ">>
msgRestartedSuffix == <<" ", "t", "i", "m", "e", "s">>

StateFindings(container) ==
    LET stateIssues == AnalyzeContainerState(container)
    IN  [i \in 1..Len(stateIssues) |->
            [Severity |-> categorizeAndRemediate(stateIssues[i]), Message |-> stateIssues[i]]]

RestartFindings(container) ==
    IF container.State.Running /\ container.RestartCount > 3
    THEN <<[Severity |-> SeverityWarning,
            Message |-> msgRestartedPrefix \o Itoa(container.RestartCount) \o msgRestartedSuffix]>>
    ELSE <<>>

\* showLog is the answer of kube.ShowLog, called once (for the previous
\* instance when RestartCount > 0): an error, or the text of the log.
LogFindings(container, showLog) ==
    IF shouldAnalyzeLogs(container) /\ ~showLog.err /\ showLog.logs # <<>>
    THEN LET logIssues == AnalyzeLogs(showLog.logs)
         IN  [i \in 1..Len(logIssues) |->
                [Severity |-> categorizeLogIssue(logIssues[i]), Message |-> logIssues[i]]]
    ELSE <<>>

\* analyzeContainer: the findings of one container.
analyzeContainer(container, showLog) ==
    StateFindings(container) \o RestartFindings(container) \o LogFindings(container, showLog)

\* fetchPodDoctor on a pod with the container statuses cs, where showLog
\* answers every log request of the pod.
RECURSIVE fetchPodDoctor(_, _)
fetchPodDoctor(cs, showLog) ==
    IF Len(cs) = 0 THEN <<>>
    ELSE analyzeContainer(Head(cs), showLog) \o fetchPodDoctor(Tail(cs), showLog)

\* Container statuses of a pod: at most one of Waiting, Running, Terminated.
PodContainerStatuses ==
    {c \in ContainerStatuses :
        Cardinality({x \in {"T", "W", "R"} :
            \/ x = "T" /\ ~c.State.Terminated.nil
            \/ x = "W" /\ ~c.State.Waiting.nil
            \/ x = "R" /\ c.State.Running}) <= 1}

\* Answers of the log collaborator: an error, or a text of at most one
\* phrase, or the text "not found file".
ShowLogTexts ==
    {LogText(ps) : ps \in {qs \in PhraseLists : Len(qs) <= 1}}
        \cup {LogText(<<[w |-> 7, upper |-> FALSE], [w |-> 9, upper |-> FALSE]>>)}
ShowLogAnswers ==
    {[err |-> TRUE, logs |-> <<>>]} \cup {[err |-> FALSE, logs |-> t] : t \in ShowLogTexts}

----------------------------------------------------------------------------
(* internal/tui: the events of a resource *)

\* strings.Compare on two timestamps: -1, 0 or 1 in the order of the
\* characters (the timestamps are strings of digits).
DigitOf(c) == CHOOSE i \in 1..10 : Digits[i] = c
RECURSIVE Compare(_, _)
Compare(a, b) ==
    IF Len(a) = 0 /\ Len(b) = 0 THEN 0
    ELSE IF Len(a) = 0 THEN -1
    ELSE IF Len(b) = 0 THEN 1
    ELSE IF DigitOf(Head(a)) < DigitOf(Head(b)) THEN -1
    ELSE IF DigitOf(Head(a)) > DigitOf(Head(b)) THEN 1
    ELSE Compare(Tail(a), Tail(b))

\* slices.SortFunc by LastTimestamp; events are told apart by their
\* timestamp only, so the order among equal ones does not show.
RECURSIVE InsertEvent(_, _)
InsertEvent(e, sorted) ==
    IF Len(sorted) = 0 THEN <<e>>
    ELSE IF Compare(e.LastTimestamp, Head(sorted).LastTimestamp) <= 0 THEN <<e>> \o sorted
    ELSE <<Head(sorted)>> \o InsertEvent(e, Tail(sorted))
RECURSIVE SortFunc(_)
SortFunc(events) ==
    IF Len(events) = 0 THEN <<>> ELSE InsertEvent(Head(events), SortFunc(Tail(events)))

HasTimestamp(e) == e.LastTimestamp # <<>>
\* for _, e := range eventList.Items { if e.LastTimestamp != "" { append } }
ValidEvents(items) == SelectSeq(items, HasTimestamp)

noteNoEvents == "No events found for this pod."
noteNoTimestamps == "No events with timestamps found."
noteNoTaskRuns == "No TaskRuns found for this PipelineRun."
noteNoPipelineRunEvents == "No events found for PipelineRun"
noteEvents == "Events for"

\* fetchPodEvents: the message for the answer of kubectl get events; listed
\* are the events in the order they are written to the content.
fetchPodEvents(items, failed) ==
    IF failed THEN [err |-> TRUE, note |-> "failed to fetch events", listed |-> <<>>]
    ELSE IF Len(items) = 0 THEN [err |-> FALSE, note |-> noteNoEvents, listed |-> <<>>]
    ELSE IF Len(ValidEvents(items)) = 0
    THEN [err |-> FALSE, note |-> noteNoTimestamps, listed |-> <<>>]
    ELSE [err |-> FALSE, note |-> noteEvents, listed |-> SortFunc(ValidEvents(items))]

\* The section of one TaskRun: its own events followed by those of its pod,
\* sorted together.  A failed request for either gives no events, like an
\* empty answer.
TaskRunSection(tr) == SortFunc(ValidEvents(tr.events) \o ValidEvents(tr.podEvents))

RECURSIVE AllSections(_)
AllSections(taskRuns) ==
    IF Len(taskRuns) = 0 THEN <<>>
    ELSE TaskRunSection(Head(taskRuns)) \o AllSections(Tail(taskRuns))

\* fetchPipelineRunEvents: one section for each TaskRun, in the order of the
\* TaskRuns.
fetchPipelineRunEvents(taskRuns, failed) ==
    IF failed THEN [err |-> TRUE, note |-> "failed to fetch TaskRuns", listed |-> <<>>]
    ELSE IF Len(taskRuns) = 0 THEN [err |-> FALSE, note |-> noteNoTaskRuns, listed |-> <<>>]
    ELSE IF Len(AllSections(taskRuns)) = 0
    THEN [err |-> FALSE, note |-> noteNoPipelineRunEvents, listed |-> <<>>]
    ELSE [err |-> FALSE, note |-> noteEvents, listed |-> AllSections(taskRuns)]

\* Events returned by the cluster: without a timestamp, or at 09, 10 or 11.
EventTimestamps == {<<>>, <<"0", "9">>, <<"1", "0">>, <<"1", "1">>}
Events == [LastTimestamp : EventTimestamps]
PodEventLists == UNION {[1..n -> Events] : n \in 0..MaxEvents}
TaskEventLists == UNION {[1..n -> Events] : n \in 0..MaxTaskEvents}
TaskRuns == [events : TaskEventLists, podEvents : TaskEventLists]
TaskRunLists == UNION {[1..n -> TaskRuns] : n \in 0..MaxTaskRuns}

----------------------------------------------------------------------------
(* The log requests of the two Doctor orchestrations *)

\* kube.ShowLog for the previous or for the current instance of a container,
\* given what the cluster answers for each.
ShowLog(previousLog, currentLog, previous) == IF previous THEN previousLog ELSE currentLog

\* The log requests of Model.analyzeContainer, each named by its previous
\* flag: one request, for the previous instance when RestartCount > 0.
analyzeContainerRequests(container) ==
    IF shouldAnalyzeLogs(container) THEN <<container.RestartCount > 0>> ELSE <<>>

\* diagnoseContainer of doctor.DiagnosePod: the log requests it makes, the
\* issues it prints and whether it prints the stability warning.
diagnoseContainer(container, previousLog, currentLog, doctorFlag) ==
    LET fetches == \/ ~container.State.Terminated.nil
                   \/ container.RestartCount > 0
                   \/ (~container.State.Waiting.nil
                        /\ container.State.Waiting.Reason = "CrashLoopBackOff")
        usePrevious == container.RestartCount > 0
        first == ShowLog(previousLog, currentLog, usePrevious)
        again == (first.err \/ first.logs = <<>>) /\ usePrevious
        final == IF again THEN ShowLog(previousLog, currentLog, FALSE) ELSE first
        issues == AnalyzeContainerState(container)
                    \o (IF fetches /\ ~final.err /\ final.logs # <<>>
                        THEN AnalyzeLogs(final.logs) ELSE <<>>)
    IN  [requests |-> IF ~fetches THEN <<>>
                      ELSE IF again THEN <<usePrevious, FALSE>> ELSE <<usePrevious>>,
         issues |-> issues,
         stability |-> /\ Len(issues) = 0
                       /\ doctorFlag
                       /\ container.State.Running
                       /\ container.RestartCount > 0]

\* Answers of the cluster to a log request in the orchestration runs.
OrchestrationLogs ==
    {[err |-> TRUE, logs |-> <<>>], [err |-> FALSE, logs |-> <<>>],
     [err |-> FALSE, logs |-> patConnectionRefused], [err |-> FALSE, logs |-> patTimeout]}

----------------------------------------------------------------------------
(* NewModel and Init *)

NewViewport == [Width |-> 0, Height |-> 0, YOffset |-> 0, content |-> [kind |-> "empty"]]

\* NewModel: the Model at construction; Init returns the FetchResources command.
NewModel ==
    /\ list = [items |-> <<>>, index |-> 0, width |-> 0, height |-> 0]
    /\ viewport = NewViewport
    /\ eventsViewport = NewViewport
    /\ doctorViewport = NewViewport
    /\ ready = FALSE
    /\ width = 0
    /\ height = 0
    /\ activeTab = tabOverview
    /\ err = NoError
    /\ ChosenItem = Nil
    /\ doctorResults = NoResults
    /\ isDoctorLoading = FALSE
    /\ focusedPane = paneList
    /\ running = TRUE
    /\ quitPending = FALSE
    /\ resPending = TRUE
    /\ inflight = {}
    /\ nextReq = 1

NewHist(track, budget) ==
    [last |-> [type |-> "NewModel"],
     requested |-> [k \in {"LogsMsg", "EventsMsg", "DoctorMsg"} |-> 0],
     handled |-> {},
     quitKey |-> FALSE,
     tabRun |-> 0,
     tabStart |-> tabOverview,
     track |-> track,
     budget |-> budget,
     lists |-> ItemLists]

InitTrack(track, budget) ==
    /\ NewModel
    /\ hist = NewHist(track, budget)
    /\ doc = NoDoc

Init == InitTrack("last", MaxFetch)

----------------------------------------------------------------------------
(* Model.Update *)

\* History of the run of cycle-tab keys: completions do not interrupt a run,
\* any other key or a resize does.
TabRunAfterTab(h) ==
    IF h.track # "tabs" THEN h
    ELSE IF h.tabRun = 0 \/ h.tabRun = tabCount
    THEN [h EXCEPT !.tabRun = 1, !.tabStart = activeTab]
    ELSE [h EXCEPT !.tabRun = h.tabRun + 1]

TabRunReset(h) == [h EXCEPT !.tabRun = 0]

QuitKeyHandled(h) == IF h.track = "quit" THEN [h EXCEPT !.quitKey = TRUE] ELSE h

NextTab_skip(tab) == (tab + 2) % 4
NextTab_nowrap(tab) == tab + 1
\* (m.activeTab + 1) % 4
NextTab(tab) == (tab + 1) % 4

\* case "tab"
KeyTab ==
    /\ running
    /\ activeTab' = NextTab(activeTab)
    /\ Schedule(TabCmds(activeTab'))
    /\ hist' = Record(NoteRequested(TabRunAfterTab(hist), TabCmds(activeTab')),
                      [type |-> "key", key |-> "tab", from |-> activeTab])
    /\ UNCHANGED <<list, viewport, eventsViewport, doctorViewport, ready, width, height,
                   err, ChosenItem, doctorResults, isDoctorLoading, focusedPane,
                   running, quitPending, resPending, doc>>

TabOfDigit_raw(k) == k
\* int(msg.Runes[0] - '1') for the keys "1".."4"
TabOfDigit(k) == k - 1

\* case "1", "2", "3", "4"
KeyDigit(k) ==
    /\ running
    /\ activeTab' = TabOfDigit(k)
    /\ Schedule(TabCmds(activeTab'))
    /\ hist' = Record(NoteRequested(TabRunReset(hist), TabCmds(activeTab')),
                      [type |-> "key", key |-> "digit", digit |-> k, from |-> activeTab])
    /\ UNCHANGED <<list, viewport, eventsViewport, doctorViewport, ready, width, height,
                   err, ChosenItem, doctorResults, isDoctorLoading, focusedPane,
                   running, quitPending, resPending, doc>>

\* case "ctrl+c", "q"
KeyQuit(key) ==
    /\ running
    /\ quitPending' = TRUE
    /\ hist' = Record(QuitKeyHandled(TabRunReset(hist)), [type |-> "key", key |-> key])
    /\ UNCHANGED <<list, viewport, eventsViewport, doctorViewport, ready, width, height,
                   activeTab, err, ChosenItem, doctorResults, isDoctorLoading, focusedPane,
                   running, resPending, inflight, nextReq, doc>>

\* case "enter": with the list pane focused the selection is recorded and
\* tea.Quit returned; otherwise the key falls through to the routed input,
\* where neither the list (not focused) nor a viewport reacts to it.
EnterRecords_anyPane(pane) == TRUE
EnterRecords(pane) == pane = paneList

KeyEnter ==
    /\ running
    /\ IF EnterRecords(focusedPane)
       THEN /\ ChosenItem' = SelectedItem(list)
            /\ quitPending' = TRUE
       ELSE UNCHANGED <<ChosenItem, quitPending>>
    /\ hist' = Record(TabRunReset(hist), [type |-> "key", key |-> "enter"])
    /\ UNCHANGED <<list, viewport, eventsViewport, doctorViewport, ready, width, height,
                   activeTab, err, doctorResults, isDoctorLoading, focusedPane,
                   running, resPending, inflight, nextReq, doc>>

PaneOfKey_swapped(key) == IF key = "left" THEN paneDetails ELSE paneList
\* case "left": m.focusedPane = paneList; case "right": m.focusedPane = paneDetails
PaneOfKey(key) == IF key = "left" THEN paneList ELSE paneDetails

\* case "left" / "right"
KeyPane(key) ==
    /\ running
    /\ focusedPane' = PaneOfKey(key)
    /\ hist' = Record(TabRunReset(hist), [type |-> "key", key |-> key])
    /\ UNCHANGED <<list, viewport, eventsViewport, doctorViewport, ready, width, height,
                   activeTab, err, ChosenItem, doctorResults, isDoctorLoading,
                   running, quitPending, resPending, inflight, nextReq, doc>>

\* The widget of the active tab in the details pane.
TabViewport(tab) ==
    CASE tab = tabLogs -> "viewport"
      [] tab = tabEvents -> "eventsViewport"
      [] tab = tabDoctor -> "doctorViewport"
      [] OTHER -> "none"

NavTarget_ignorePane(pane, tab) == TabViewport(tab)
\* if m.focusedPane == paneList { list } else { switch m.activeTab { ... } }
NavTarget(pane, tab) == IF pane = paneList THEN "list" ELSE TabViewport(tab)

\* Routed input: any other key goes to the list when the list pane is focused,
\* and to the viewport of the active tab when the details pane is focused.
KeyNav(key) ==
    /\ running
    /\ list' = IF NavTarget(focusedPane, activeTab) = "list"
               THEN ListUpdate(list, key) ELSE list
    /\ viewport' = IF NavTarget(focusedPane, activeTab) = "viewport"
                   THEN ViewportUpdate(viewport, key) ELSE viewport
    /\ eventsViewport' = IF NavTarget(focusedPane, activeTab) = "eventsViewport"
                         THEN ViewportUpdate(eventsViewport, key) ELSE eventsViewport
    /\ doctorViewport' = IF NavTarget(focusedPane, activeTab) = "doctorViewport"
                         THEN ViewportUpdate(doctorViewport, key) ELSE doctorViewport
    /\ hist' = Record(TabRunReset(hist), [type |-> "key", key |-> key])
    /\ UNCHANGED <<ready, width, height,
                   activeTab, err, ChosenItem, doctorResults, isDoctorLoading, focusedPane,
                   running, quitPending, resPending, inflight, nextReq, doc>>

----------------------------------------------------------------------------
(* Model.Update: completion messages and resize *)

SetItems_ignored(l, items) == l
\* list.Model.SetItems: the items are replaced by those given.
SetItems(l, items) == [l EXCEPT !.items = items]

\* case ResourceMsg: the message of the FetchResources command of Init.
ResourceMsg(items, failed) ==
    /\ running
    /\ resPending
    /\ resPending' = FALSE
    /\ IF failed
       THEN /\ err' = "list error"
            /\ UNCHANGED list
       ELSE /\ list' = SetItems(list, items)
            /\ UNCHANGED err
    /\ hist' = Record(hist, [type |-> "ResourceMsg", failed |-> failed, items |-> items])
    /\ UNCHANGED <<viewport, eventsViewport, doctorViewport, ready, width, height,
                   activeTab, ChosenItem, doctorResults, isDoctorLoading, focusedPane,
                   running, quitPending, inflight, nextReq, doc>>

\* What a fetch delivers: the text of its result, or the inline error text
\* of its tab ("Error fetching logs: ...", "Error fetching events: ...",
\* "Error performing doctor analysis: ...").
Fetched(c) == [kind |-> "ok", of |-> c.kind, req |-> c.id, item |-> c.item]
ErrorText(c) == [kind |-> "err", of |-> c.kind, req |-> c.id, item |-> c.item]

MsgContent_ignoreErr(c, failed) == Fetched(c)
\* if msg.err != nil { SetContent("Error ...") } else { SetContent(msg.content) }
MsgContent(c, failed) == IF failed THEN ErrorText(c) ELSE Fetched(c)

CompletionCmds_retryOnError(c, failed) == IF failed THEN {c} ELSE {}
\* The commands a completion case leaves in cmds: none (return m, tea.Batch()).
CompletionCmds(c, failed) == {}

Handled(h, c, failed) ==
    Record([h EXCEPT !.handled = h.handled \cup {c.id}],
           [type |-> c.kind, failed |-> failed, req |-> c.id])

\* case LogsMsg
LogsMsg(c, failed) ==
    /\ running
    /\ c \in inflight
    /\ c.kind = "LogsMsg"
    /\ inflight' = (inflight \ {c}) \cup CompletionCmds(c, failed)
    /\ viewport' = SetContent(viewport, MsgContent(c, failed))
    /\ hist' = Handled(hist, c, failed)
    /\ UNCHANGED <<list, eventsViewport, doctorViewport, ready, width, height,
                   activeTab, err, ChosenItem, doctorResults, isDoctorLoading, focusedPane,
                   running, quitPending, resPending, nextReq, doc>>

\* case EventsMsg
EventsMsg(c, failed) ==
    /\ running
    /\ c \in inflight
    /\ c.kind = "EventsMsg"
    /\ inflight' = (inflight \ {c}) \cup CompletionCmds(c, failed)
    /\ eventsViewport' = SetContent(eventsViewport, MsgContent(c, failed))
    /\ hist' = Handled(hist, c, failed)
    /\ UNCHANGED <<list, viewport, doctorViewport, ready, width, height,
                   activeTab, err, ChosenItem, doctorResults, isDoctorLoading, focusedPane,
                   running, quitPending, resPending, nextReq, doc>>

\* case DoctorMsg: on an error the stored results are left as they are.
DoctorMsg(c, failed) ==
    /\ running
    /\ c \in inflight
    /\ c.kind = "DoctorMsg"
    /\ inflight' = (inflight \ {c}) \cup CompletionCmds(c, failed)
    /\ isDoctorLoading' = FALSE
    /\ IF failed
       THEN /\ doctorViewport' = SetContent(doctorViewport, MsgContent(c, failed))
            /\ UNCHANGED doctorResults
       ELSE /\ doctorResults' = [req |-> c.id, item |-> c.item]
            /\ doctorViewport' = SetContent(doctorViewport, MsgContent(c, failed))
    /\ hist' = Handled(hist, c, failed)
    /\ UNCHANGED <<list, viewport, eventsViewport, ready, width, height,
                   activeTab, err, ChosenItem, focusedPane,
                   running, quitPending, resPending, nextReq, doc>>

\* The layout computed for a tea.WindowSizeMsg; appStyle has no margin, so
\* its frame size is 0.
LayoutWidth(w) == Max(w, minListWidth + minDetailsWidth)
LayoutHeight_noFloor(h) == h
LayoutHeight(h) == Max(h, minHeight)
ListWidth(w) == Max(LayoutWidth(w) \div 3, minListWidth)
DetailsWidth(w) == Max(LayoutWidth(w) - ListWidth(w) - 2, minDetailsWidth)
ViewportHeight(h) == Max(LayoutHeight(h) - 4, minViewportHeight)

\* case tea.WindowSizeMsg
Resize(w, h) ==
    /\ running
    /\ width' = LayoutWidth(w)
    /\ height' = LayoutHeight(h)
    /\ list' = [list EXCEPT !.width = ListWidth(w), !.height = LayoutHeight(h)]
    /\ viewport' = [viewport EXCEPT !.Width = DetailsWidth(w) - 2,
                                    !.Height = ViewportHeight(h)]
    /\ eventsViewport' = [eventsViewport EXCEPT !.Width = DetailsWidth(w) - 2,
                                                !.Height = ViewportHeight(h)]
    /\ doctorViewport' = [doctorViewport EXCEPT !.Width = DetailsWidth(w) - 2,
                                                !.Height = ViewportHeight(h)]
    /\ ready' = TRUE
    /\ hist' = Record(TabRunReset(hist), [type |-> "WindowSizeMsg", w |-> w, h |-> h])
    /\ UNCHANGED <<activeTab, err, ChosenItem, doctorResults, isDoctorLoading, focusedPane,
                   running, quitPending, resPending, inflight, nextReq, doc>>

----------------------------------------------------------------------------
(* Model.View *)

viewInitializing == "Initializing Dashboard..."
viewTooSmall == "Terminal too small. Please resize."
viewLayout == "list pane | details pane"

View_noReadyCheck == IF width <= 0 \/ height <= 0 THEN viewTooSmall ELSE viewLayout
\* View: what is rendered for the current Model.
View ==
    IF ~ready THEN viewInitializing
    ELSE IF width <= 0 \/ height <= 0 THEN viewTooSmall
    ELSE viewLayout

bodyError == "Error: ..."
bodyNoItem == "No item selected."
bodyOverview == "overview"
bodyAnalyzing == "Analyzing containers..."

renderDetails_itemFirst ==
    IF SelectedItem(list) = Nil THEN [body |-> bodyNoItem]
    ELSE IF err # NoError THEN [body |-> bodyError]
    ELSE [body |-> bodyOverview, item |-> SelectedItem(list)]
\* renderDetails: the body of the details pane; for a tab with a viewport,
\* the content of the viewport.
renderDetails ==
    IF err # NoError THEN [body |-> bodyError]
    ELSE IF SelectedItem(list) = Nil THEN [body |-> bodyNoItem]
    ELSE CASE activeTab = tabOverview -> [body |-> bodyOverview, item |-> SelectedItem(list)]
           [] activeTab = tabLogs -> [body |-> "viewport", content |-> viewport.content]
           [] activeTab = tabEvents -> [body |-> "viewport", content |-> eventsViewport.content]
           [] activeTab = tabDoctor ->
                IF isDoctorLoading THEN [body |-> bodyAnalyzing]
                ELSE [body |-> "viewport", content |-> doctorViewport.content]

----------------------------------------------------------------------------
(* The runtime *)

\* The QuitMsg of a tea.Quit command reaches the loop, which returns the Model.
DeliverQuit ==
    /\ running
    /\ quitPending
    /\ running' = FALSE
    /\ quitPending' = FALSE
    /\ hist' = Record(hist, [type |-> "QuitMsg"])
    /\ UNCHANGED <<list, viewport, eventsViewport, doctorViewport, ready, width, height,
                   activeTab, err, ChosenItem, doctorResults, isDoctorLoading, focusedPane,
                   resPending, inflight, nextReq, doc>>

Key ==
    \/ KeyTab
    \/ \E k \in 1..4 : KeyDigit(k)
    \/ \E key \in {"q", "ctrl+c"} : KeyQuit(key)
    \/ KeyEnter
    \/ \E key \in {"left", "right"} : KeyPane(key)
    \/ \E key \in {"up", "down"} : KeyNav(key)

Completion ==
    \/ \E items \in hist.lists, failed \in BOOLEAN : ResourceMsg(items, failed)
    \/ \E c \in inflight, failed \in BOOLEAN : LogsMsg(c, failed)
    \/ \E c \in inflight, failed \in BOOLEAN : EventsMsg(c, failed)
    \/ \E c \in inflight, failed \in BOOLEAN : DoctorMsg(c, failed)

Next ==
    \/ Key
    \/ Completion
    \/ \E sz \in Sizes : Resize(sz[1], sz[2])
    \/ DeliverQuit

Spec == Init /\ [][Next]_vars

\* The same program, recording the run of cycle-tab keys.
InitTabs == InitTrack("tabs", MaxFetch)
SpecTabs == InitTabs /\ [][Next]_vars

\* The same program, recording whether a quit key was handled.
InitQuit == InitTrack("quit", MaxFetch)
SpecQuit == InitQuit /\ [][Next]_vars

\* The same program with the fetch commands of a race between two fetches.
InitFresh == InitTrack("last", MaxRaceFetch)
SpecFresh == InitFresh /\ [][Next]_vars

\* The same program with up to MaxSelectItems resources listed.
InitSelect ==
    /\ NewModel
    /\ hist = [NewHist("last", MaxFetch) EXCEPT !.lists = ListsUpTo(MaxSelectItems)]
    /\ doc = NoDoc
SpecSelect == InitSelect /\ [][Next]_vars

\* The layout: every terminal size up to MaxWidth x MaxHeight.
NextResize == \E w \in 0..MaxWidth, h \in 0..MaxHeight : Resize(w, h)
SpecResize == Init /\ [][NextResize]_vars

----------------------------------------------------------------------------
(* The doctor engine on one container status *)

InitDoctor ==
    /\ NewModel
    /\ hist = NewHist("none", 0)
    /\ \E c \in ContainerStatuses : doc = [phase |-> "input", container |-> c]

AnalyzeState ==
    /\ doc.phase = "input"
    /\ doc' = [phase |-> "state", container |-> doc.container,
               issues |-> AnalyzeContainerState(doc.container)]
    /\ UNCHANGED dash

NextDoctor == AnalyzeState

SpecDoctor == InitDoctor /\ [][NextDoctor]_vars

----------------------------------------------------------------------------
(* The doctor engine on one log text *)

InitLogs ==
    /\ NewModel
    /\ hist = NewHist("none", 0)
    /\ \E ps \in PhraseLists : doc = [phase |-> "logs-input", phrases |-> ps, logs |-> LogText(ps)]

AnalyzeLogsStep ==
    /\ doc.phase = "logs-input"
    /\ doc' = [phase |-> "logs", phrases |-> doc.phrases, logs |-> doc.logs,
               issues |-> AnalyzeLogs(doc.logs)]
    /\ UNCHANGED dash

NextLogs == AnalyzeLogsStep

SpecLogs == InitLogs /\ [][NextLogs]_vars

----------------------------------------------------------------------------
(* The Doctor analysis of a pod with one container *)

InitFindings ==
    /\ NewModel
    /\ hist = NewHist("none", 0)
    /\ \E c \in PodContainerStatuses, a \in ShowLogAnswers :
            doc = [phase |-> "pod-input", container |-> c, showLog |-> a]

FetchPodDoctorStep ==
    /\ doc.phase = "pod-input"
    /\ doc' = [phase |-> "findings", container |-> doc.container, showLog |-> doc.showLog,
               Findings |-> fetchPodDoctor(<<doc.container>>, doc.showLog)]
    /\ UNCHANGED dash

NextFindings == FetchPodDoctorStep

SpecFindings == InitFindings /\ [][NextFindings]_vars

----------------------------------------------------------------------------
(* The events fetch of one resource *)

InitEvents ==
    /\ NewModel
    /\ hist = NewHist("none", 0)
    /\ \/ \E items \in PodEventLists :
            doc = [phase |-> "events-input", kind |-> "Pod", items |-> items, failed |-> FALSE]
       \/ \E trs \in TaskRunLists :
            doc = [phase |-> "events-input", kind |-> "PipelineRun", items |-> trs,
                   failed |-> FALSE]
       \/ \E kind \in {"Pod", "PipelineRun"} :
            doc = [phase |-> "events-input", kind |-> kind, items |-> <<>>, failed |-> TRUE]

FetchPodEventsStep ==
    /\ doc.phase = "events-input"
    /\ doc.kind = "Pod"
    /\ doc' = [phase |-> "events", kind |-> doc.kind, items |-> doc.items,
               msg |-> fetchPodEvents(doc.items, doc.failed)]
    /\ UNCHANGED dash

FetchPipelineRunEventsStep ==
    /\ doc.phase = "events-input"
    /\ doc.kind = "PipelineRun"
    /\ doc' = [phase |-> "events", kind |-> doc.kind, items |-> doc.items,
               msg |-> fetchPipelineRunEvents(doc.items, doc.failed)]
    /\ UNCHANGED dash

NextEvents == FetchPodEventsStep \/ FetchPipelineRunEventsStep

SpecEvents == InitEvents /\ [][NextEvents]_vars

----------------------------------------------------------------------------
(* The two Doctor orchestrations on one container *)

InitOrchestration ==
    /\ NewModel
    /\ hist = NewHist("none", 0)
    /\ \E c \in PodContainerStatuses, p \in OrchestrationLogs, q \in OrchestrationLogs,
          d \in BOOLEAN :
            doc = [phase |-> "logs-of", container |-> c, previousLog |-> p,
                   currentLog |-> q, doctorFlag |-> d]

\* The dashboard analyses the container (Model.analyzeContainer).
AnalyzeContainerStep ==
    /\ doc.phase = "logs-of"
    /\ doc' = [phase |-> "analyzed", container |-> doc.container,
               previousLog |-> doc.previousLog, currentLog |-> doc.currentLog,
               doctorFlag |-> doc.doctorFlag,
               requests |-> analyzeContainerRequests(doc.container),
               Findings |-> analyzeContainer(doc.container,
                                ShowLog(doc.previousLog, doc.currentLog,
                                        doc.container.RestartCount > 0))]
    /\ UNCHANGED dash

\* The command line diagnoses the container (doctor.DiagnosePod).
DiagnoseContainerStep ==
    /\ doc.phase = "logs-of"
    /\ doc' = [phase |-> "diagnosed", container |-> doc.container,
               previousLog |-> doc.previousLog, currentLog |-> doc.currentLog,
               doctorFlag |-> doc.doctorFlag,
               diagnosis |-> diagnoseContainer(doc.container, doc.previousLog,
                                               doc.currentLog, doc.doctorFlag)]
    /\ UNCHANGED dash

NextOrchestration == AnalyzeContainerStep \/ DiagnoseContainerStep

SpecOrchestration == InitOrchestration /\ [][NextOrchestration]_vars

----------------------------------------------------------------------------
(* main: printEventsTimeline *)

\* A timestamp is the time of day of an RFC3339 stamp, the six digits of
\* hh:mm:ss; the empty string is a stamp that is not there.
digit(c) == DigitOf(c) - 1

\* time.Parse: the seconds since the start of the day, or an error.
ParseTime(stamp) ==
    IF Len(stamp) = 6
    THEN [err |-> FALSE,
          t |-> (10 * digit(stamp[1]) + digit(stamp[2])) * 3600
                + (10 * digit(stamp[3]) + digit(stamp[4])) * 60
                + (10 * digit(stamp[5]) + digit(stamp[6]))]
    ELSE [err |-> TRUE, t |-> 0]

\* The %02d verb of fmt.Sprintf for a natural number.
Pad2(n) == IF n < 10 THEN <<"0">> \o Itoa(n) ELSE Itoa(n)

\* The time column of one event: totalSeconds is split and formatted;
\* minutes %= minutes divides by zero when minutes is 0.
FormatOffset(totalSeconds) ==
    LET minutes0 == totalSeconds \div 60
        seconds == totalSeconds % 60
        hours == minutes0 \div 60
    IN  IF minutes0 = 0 THEN [panicked |-> TRUE]
        ELSE LET minutes == minutes0 % minutes0
             IN  [panicked |-> FALSE, hours |-> hours, minutes |-> minutes,
                  seconds |-> seconds,
                  timeStr |-> IF hours > 0
                              THEN Pad2(hours) \o <<":">> \o Pad2(minutes) \o <<":">> \o Pad2(seconds)
                              ELSE Pad2(minutes) \o <<":">> \o Pad2(seconds)]

\* The loop over the sorted events; a panic ends the program, the rows
\* printed before it stay.
RECURSIVE timelineRows(_, _)
timelineRows(events, podCreationTime) ==
    IF Len(events) = 0 THEN [rows |-> <<>>, panicked |-> FALSE]
    ELSE LET eventTime == ParseTime(Head(events).LastTimestamp)
         IN  IF eventTime.err THEN timelineRows(Tail(events), podCreationTime)
             ELSE LET diff == Max(eventTime.t - podCreationTime, 0)
                      row == FormatOffset(diff)
                  IN  IF row.panicked THEN [rows |-> <<>>, panicked |-> TRUE]
                      ELSE LET rest == timelineRows(Tail(events), podCreationTime)
                           IN  [rows |-> <<row>> \o rest.rows, panicked |-> rest.panicked]

\* printEventsTimeline for the creation timestamp of the pod and the events
\* kubectl returned. Every event stamp that is not empty parses, so the first
\* of the sorted events gives a time when the creation stamp does not.
printEventsTimeline(creationTimestamp, items) ==
    LET validEvents == ValidEvents(items)
        sorted == SortFunc(validEvents)
        parsed == ParseTime(creationTimestamp)
        podCreationTime == IF parsed.err THEN ParseTime(sorted[1].LastTimestamp).t
                           ELSE parsed.t
    IN  IF Len(validEvents) = 0 THEN [rows |-> <<>>, panicked |-> FALSE]
        ELSE timelineRows(sorted, podCreationTime)

TimelineStamps == {<<>>, <<"0", "0", "0", "0", "0", "0">>, <<"0", "0", "0", "0", "3", "0">>, <<"0", "0", "0", "1", "0", "0">>, <<"0", "0", "0", "1", "3", "0">>, <<"0", "1", "0", "0", "0", "0">>, <<"0", "1", "0", "2", "0", "5">>}
CreationStamps == {<<>>, <<"0", "0", "0", "0", "0", "0">>, <<"0", "0", "0", "0", "4", "5">>}
TimelineEvents == [LastTimestamp : TimelineStamps]
TimelineEventLists == UNION {[1..n -> TimelineEvents] : n \in 0..MaxTimelineEvents}

InitTimeline ==
    /\ NewModel
    /\ hist = NewHist("none", 0)
    /\ \E c \in CreationStamps, items \in TimelineEventLists :
            doc = [phase |-> "timeline-input", creationTimestamp |-> c, items |-> items]

PrintEventsTimelineStep ==
    /\ doc.phase = "timeline-input"
    /\ doc' = [phase |-> "timeline", creationTimestamp |-> doc.creationTimestamp,
               items |-> doc.items,
               out |-> printEventsTimeline(doc.creationTimestamp, doc.items)]
    /\ UNCHANGED dash

NextTimeline == PrintEventsTimelineStep

SpecTimeline == InitTimeline /\ [][NextTimeline]_vars

----------------------------------------------------------------------------
(* Properties of the dashboard *)

FetchKinds == {"LogsMsg", "EventsMsg", "DoctorMsg"}

\* The viewport that shows the result of a fetch kind.
ViewportOf(k) ==
    CASE k = "LogsMsg" -> viewport
      [] k = "EventsMsg" -> eventsViewport
      [] OTHER -> doctorViewport

LastIsKey(key) == hist.last.type = "key" /\ hist.last.key = key

\* C1: freshness, last-requested-wins: once the fetch requested last for a
\* tab has been handled, the tab's content is the result of that fetch; a
\* completion of an earlier fetch arriving later does not overwrite it.
C1_Freshness ==
    \A k \in FetchKinds :
        (hist.requested[k] # 0 /\ hist.requested[k] \in hist.handled)
            => /\ ViewportOf(k).content.kind # "empty"
               /\ ViewportOf(k).content.req = hist.requested[k]

\* C2: the cycle-tab key advances the active tab by one in the order
\* Overview, Logs, Events, Doctor, Overview; after four cycle-tab keys, with
\* fetch completions handled in between, the active tab is the one the run
\* started from.
C2_TabCycle ==
    /\ hist.tabRun \in 1..4 => activeTab = (hist.tabStart + hist.tabRun) % 4
    /\ hist.tabRun = 4 => activeTab = hist.tabStart

W_C2 ==
    /\ hist.tabRun = 4
    /\ hist.tabStart = tabLogs
    /\ activeTab = tabLogs
    /\ hist.handled # {}

\* C3: after the direct tab-index key k the active tab is the k-th tab:
\* 1 Overview, 2 Logs, 3 Events, 4 Doctor.
C3_DirectTab ==
    LastIsKey("digit") =>
        /\ hist.last.digit = 1 => activeTab = tabOverview
        /\ hist.last.digit = 2 => activeTab = tabLogs
        /\ hist.last.digit = 3 => activeTab = tabEvents
        /\ hist.last.digit = 4 => activeTab = tabDoctor

W_C3 ==
    /\ LastIsKey("digit")
    /\ hist.last.digit = 4
    /\ activeTab = tabDoctor
    /\ focusedPane = paneDetails

\* C4: the active tab is always one of Overview, Logs, Events, Doctor and
\* the focused pane one of List, Details; a new dashboard is on Overview with
\* the List pane focused.
C4_TabAndPaneDefined ==
    /\ activeTab \in {tabOverview, tabLogs, tabEvents, tabDoctor}
    /\ focusedPane \in {paneList, paneDetails}
    /\ hist.last.type = "NewModel" => activeTab = tabOverview /\ focusedPane = paneList

W_C4 ==
    /\ LastIsKey("tab")
    /\ activeTab = tabOverview
    /\ focusedPane = paneDetails
    /\ ready

\* C5: Enter with the List pane focused records the item selected at that
\* moment as the outcome and ends the loop (tea.Quit is returned); Enter with
\* the Details pane focused records nothing and does not end the loop.
C5_Commit ==
    [][(hist'.last.type = "key" /\ hist'.last.key = "enter") =>
            IF focusedPane = paneList
            THEN /\ ChosenItem' = SelectedItem(list)
                 /\ quitPending'
            ELSE /\ ChosenItem' = ChosenItem
                 /\ quitPending' = quitPending
                 /\ running']_vars

W_C5 ==
    /\ LastIsKey("enter")
    /\ focusedPane = paneList
    /\ ChosenItem # Nil
    /\ ChosenItem = SelectedItem(list)
    /\ quitPending

\* C6: the quit key or interrupt ends the loop with no outcome: once it has
\* been handled with nothing chosen, no event handled afterwards makes the
\* outcome a chosen resource.
C6_QuitHasNoOutcome ==
    [][(hist.quitKey /\ ChosenItem = Nil) => ChosenItem' = Nil]_vars

LastIsResize == hist.last.type = "WindowSizeMsg"

Viewports == {viewport, eventsViewport, doctorViewport}

\* C7 as stated: after a Resize to W x H the list pane is max(minListWidth,
\* W div 3) wide and every tab viewport is H - 4 high, floored at the minimum
\* viewport height.
C7_Original ==
    LastIsResize =>
        /\ list.width = Max(minListWidth, hist.last.w \div 3)
        /\ \A vp \in Viewports : vp.Height = Max(hist.last.h - 4, minViewportHeight)

\* C7 amended: after a Resize to W x H the list pane is max(minListWidth,
\* W div 3) wide and every tab viewport is max(H, minHeight) - 4 high, so at
\* least 6; W = 100, H = 30 gives 33 and 26.
C7_Layout ==
    LastIsResize =>
        /\ list.width = Max(minListWidth, hist.last.w \div 3)
        /\ \A vp \in Viewports : vp.Height = Max(hist.last.h, minHeight) - 4
        /\ \A vp \in Viewports : vp.Height >= 6
        /\ (hist.last.w = 100 /\ hist.last.h = 30) =>
                list.width = 33 /\ \A vp \in Viewports : vp.Height = 26

W_C7 ==
    /\ LastIsResize
    /\ hist.last.w = 100
    /\ hist.last.h = 9
    /\ list.width = 33
    /\ viewport.Height = 6

\* C8: a Logs, Events or Doctor completion that carries an error replaces
\* only the content of its own tab, by the error text; the other tabs, the
\* resource list, the active tab, the focused pane and the outcome are
\* unchanged and the loop goes on.
C8_ErrorConfined ==
    [][\A k \in FetchKinds :
        (hist'.last.type = k /\ hist'.last.failed) =>
            /\ ViewportOf(k)'.content.kind = "err"
            /\ ViewportOf(k)'.content.of = k
            /\ ViewportOf(k)'.content.req = hist'.last.req
            /\ \A o \in FetchKinds \ {k} : ViewportOf(o)' = ViewportOf(o)
            /\ list' = list
            /\ activeTab' = activeTab
            /\ focusedPane' = focusedPane
            /\ ChosenItem' = ChosenItem
            /\ quitPending' = quitPending
            /\ running']_vars

W_C8 ==
    /\ hist.last.type = "DoctorMsg"
    /\ hist.last.failed
    /\ doctorViewport.content.kind = "err"
    /\ viewport.content.kind = "empty"
    /\ list.items # <<>>
    /\ running

\* C15: after a resize below the minimum width or height the renderer shows
\* the 'terminal too small' notice instead of the two-pane layout, and after
\* a resize to a valid size the layout.
C15_TooSmallNotice ==
    LastIsResize =>
        IF hist.last.w < minListWidth + minDetailsWidth \/ hist.last.h < minHeight
        THEN View = viewTooSmall
        ELSE View = viewLayout

DoctorInFlight == \E c \in inflight : c.kind = "DoctorMsg"

\* C16: from the key that makes Doctor the active tab with an item selected
\* until the Doctor completion is handled, the Doctor-loading flag is true and
\* the earlier analysis is discarded, so the details pane shows the loading
\* indicator; with no Doctor fetch outstanding the flag is false.
C16_DoctorLoading ==
    /\ DoctorInFlight =>
        /\ isDoctorLoading
        /\ doctorResults = NoResults
        /\ (activeTab = tabDoctor /\ err = NoError /\ SelectedItem(list) # Nil)
                => renderDetails.body = bodyAnalyzing
    /\ ~DoctorInFlight => ~isDoctorLoading
    /\ activeTab # tabDoctor => renderDetails.body # bodyAnalyzing

\* C18: a cycle-tab or direct tab-index key that makes Logs, Events or Doctor
\* the active tab while an item is selected schedules exactly one fetch, of
\* that tab's kind and for the selected item, also when the tab was already
\* active; when it makes Overview the active tab, or no item is selected, it
\* schedules no fetch.
C18_OneFetch ==
    [][(hist'.last.type = "key" /\ hist'.last.key \in {"tab", "digit"}) =>
            IF activeTab' \in {tabLogs, tabEvents, tabDoctor} /\ SelectedItem(list) # Nil
            THEN /\ inflight \subseteq inflight'
                 /\ Cardinality(inflight' \ inflight) = 1
                 /\ \A c \in inflight' \ inflight :
                        /\ c.kind = FetchKind(activeTab')
                        /\ c.item = SelectedItem(list)
            ELSE inflight' = inflight]_vars

W_C18 ==
    /\ LastIsKey("digit")
    /\ hist.last.digit = 2
    /\ hist.last.from = tabLogs
    /\ activeTab = tabLogs
    /\ inflight = {[kind |-> "LogsMsg", item |-> 1, id |-> 1]}

\* C19: when a key moves the list selection to another item while a tab
\* other than Overview is active, a fetch of that tab's kind is scheduled for
\* the newly selected item.
C19_RefetchOnSelect ==
    [][(/\ hist'.last.type = "key"
        /\ hist'.last.key \in {"up", "down"}
        /\ SelectedItem(list') # SelectedItem(list)
        /\ activeTab # tabOverview)
            => \E c \in inflight' \ inflight :
                    /\ c.kind = FetchKind(activeTab)
                    /\ c.item = SelectedItem(list')]_vars

\* C20: the left key focuses the List pane and the right key the Details
\* pane, and nothing else changes: the active tab, the list and its
\* selection, the content and offset of every viewport, the loading flag, the
\* analysis, the outcome, and the fetches outstanding.
C20_PaneOnly ==
    [][(hist'.last.type = "key" /\ hist'.last.key \in {"left", "right"}) =>
            /\ hist'.last.key = "left" => focusedPane' = paneList
            /\ hist'.last.key = "right" => focusedPane' = paneDetails
            /\ UNCHANGED <<activeTab, list, viewport, eventsViewport, doctorViewport,
                           isDoctorLoading, doctorResults, ChosenItem, err,
                           inflight, nextReq, quitPending, running,
                           ready, width, height, resPending>>]_vars

W_C20 ==
    /\ LastIsKey("right")
    /\ focusedPane = paneDetails
    /\ activeTab = tabLogs
    /\ inflight # {}
    /\ list.items # <<>>

detailsWidth == viewport.Width + 2

\* C22: after a Resize the details pane is as wide as what the list pane
\* leaves, less the border of 2, so that list pane, details pane and border
\* together are not wider than the width the layout is computed for.
C22_DetailsWidth ==
    LastIsResize =>
        /\ detailsWidth = width - list.width - 2
        /\ list.width + detailsWidth + 2 <= width

CompletionTypes == {"ResourceMsg", "LogsMsg", "EventsMsg", "DoctorMsg"}

\* C23: ready is false at creation, becomes true exactly when a Resize is
\* handled and stays true; a Resize can be handled in every state of the
\* loop; while ready is false the renderer shows only the initializing
\* notice, whatever else has been handled.
C23_Ready ==
    /\ [](hist.last.type = "NewModel" => ~ready)
    /\ [](~ready => View = viewInitializing)
    /\ [](running => ENABLED (\E sz \in Sizes : Resize(sz[1], sz[2])))
    /\ [][ready' = (ready \/ hist'.last.type = "WindowSizeMsg")]_vars

W_C23 ==
    /\ ~ready
    /\ View = viewInitializing
    /\ viewport.content.kind = "ok"
    /\ activeTab = tabLogs
    /\ focusedPane = paneDetails

\* C24: handling a completion message (resource list, Logs, Events or
\* Doctor, with or without an error) schedules no fetch: the completed fetch
\* is no longer outstanding and none is added; a fetch is only scheduled by
\* the handling of a key.
C24_NoRetry ==
    [][/\ hist'.last.type \in FetchKinds =>
            /\ inflight' \subseteq inflight
            /\ Cardinality(inflight') = Cardinality(inflight) - 1
            /\ \A c \in inflight' : c.id # hist'.last.req
            /\ nextReq' = nextReq
            /\ resPending' = resPending
       /\ hist'.last.type = "ResourceMsg" =>
            /\ inflight' = inflight
            /\ nextReq' = nextReq
            /\ ~resPending'
       /\ ~(inflight' \subseteq inflight) => hist'.last.type = "key"]_vars

W_C24 ==
    /\ hist.last.type = "DoctorMsg"
    /\ hist.last.failed
    /\ activeTab = tabDoctor
    /\ inflight = {}
    /\ nextReq = 2
    /\ doctorViewport.content.kind = "err"

\* C28: a resource-list completion without an error replaces the list by
\* exactly the items of the message; one with an error leaves the list as it
\* is and records the error; either way the active tab, the focused pane and
\* the content of every tab are unchanged and the loop goes on.
C28_ResourceList ==
    [][hist'.last.type = "ResourceMsg" =>
            /\ IF hist'.last.failed
               THEN /\ list' = list
                    /\ err' # NoError
               ELSE /\ list'.items = hist'.last.items
                    /\ err' = err
            /\ UNCHANGED <<activeTab, focusedPane, viewport, eventsViewport, doctorViewport,
                           quitPending>>
            /\ running']_vars

W_C28 ==
    /\ hist.last.type = "ResourceMsg"
    /\ ~hist.last.failed
    /\ hist.last.items = <<1>>
    /\ list.items = <<1>>
    /\ activeTab = tabEvents
    /\ err = NoError

\* C29: whenever the Doctor-loading flag is false, the stored analysis and
\* the content of the Doctor viewport stem from the same Doctor completion:
\* when the viewport shows the error of a completion, no analysis is stored.
C29_DoctorConsistent ==
    ~isDoctorLoading =>
        /\ doctorViewport.content.kind = "empty" => doctorResults = NoResults
        /\ doctorViewport.content.kind = "err" => doctorResults = NoResults
        /\ doctorViewport.content.kind = "ok" => doctorResults.req = doctorViewport.content.req

\* C30: a recorded resource-list error stays recorded whatever is handled
\* later, and while it is recorded the details pane shows that error in place
\* of the body of the active tab, whichever tab that is.
C30_StickyError ==
    /\ [](err # NoError => renderDetails.body = bodyError)
    /\ [][err # NoError => err' = err]_vars

W_C30 ==
    /\ err # NoError
    /\ activeTab = tabDoctor
    /\ LastIsKey("tab")
    /\ ready
    /\ renderDetails.body = bodyError

----------------------------------------------------------------------------
(* Properties of the doctor engine *)

\* An issue mentions a text when it contains it, letter case apart.
Mentions(issue, text) == Contains(ToLower(issue), ToLower(text))
Count(issues, text) == Cardinality({i \in 1..Len(issues) : Mentions(issues[i], text)})

txtOOMKilled == <<"O", "O", "M", "K", "i", "l", "l", "e", "d">>
txtCrashed == <<"A", "p", "p", "l", "i", "c", "a", "t", "i", "o", "n", " ", "c", "r", "a", "s", "h", "e", "d">>
txtExitCode == <<"E", "x", "i", "t", " ", "C", "o", "d", "e", " ">>
txtCommandNotFound == <<"C", "o", "m", "m", "a", "n", "d", " ", "n", "o", "t", " ", "f", "o", "u", "n", "d">>
txtPullImage == <<"f", "a", "i", "l", "e", "d", " ", "t", "o", " ", "p", "u", "l", "l", " ", "i", "m", "a", "g", "e">>
txtCrashing == <<"c", "r", "a", "s", "h", "i", "n", "g", " ", "r", "e", "p", "e", "a", "t", "e", "d", "l", "y">>
txtConfigError == <<"C", "o", "n", "f", "i", "g", "u", "r", "a", "t", "i", "o", "n", " ", "e", "r", "r", "o", "r">>

TerminationTexts == {txtOOMKilled, txtCrashed, txtCommandNotFound}
WaitingTexts == {txtPullImage, txtCrashing, txtConfigError}

Analyzed == doc.phase = "state"

\* The exit code the rule table is applied to, -1 when there is none.
RuleExitCode(c) ==
    IF ~c.State.Terminated.nil THEN c.State.Terminated.ExitCode
    ELSE IF ~c.LastState.nil /\ ~c.LastState.Terminated.nil
    THEN c.LastState.Terminated.ExitCode
    ELSE -1

\* C9: AnalyzeContainerState returns exactly the issues of its rule table,
\* each rule on its own: a current termination with exit code 137 gives one
\* OOMKilled issue, 1 or 2 one 'Application crashed' issue, 127 one 'Command
\* not found' issue, any other code none; a waiting reason ImagePullBackOff or
\* ErrImagePull gives one 'failed to pull image' issue, CrashLoopBackOff and
\* CreateContainerConfigError one issue each, any other reason none.
C9_RuleTable ==
    Analyzed =>
        LET c == doc.container
            is == doc.issues
            t == c.State.Terminated
            w == c.State.Waiting
            nTerm == IF RuleExitCode(c) \in {137, 1, 2, 127} THEN 1 ELSE 0
            nWait == IF ~w.nil /\ w.Reason \in {"ImagePullBackOff", "ErrImagePull",
                                               "CrashLoopBackOff",
                                               "CreateContainerConfigError"}
                     THEN 1 ELSE 0
        IN  /\ Len(is) = nTerm + nWait
            /\ ~t.nil =>
                /\ Count(is, txtOOMKilled) = (IF t.ExitCode = 137 THEN 1 ELSE 0)
                /\ Count(is, txtCrashed) = (IF t.ExitCode \in {1, 2} THEN 1 ELSE 0)
                /\ t.ExitCode \in {1, 2} => Count(is, txtExitCode \o Itoa(t.ExitCode)) = 1
                /\ Count(is, txtCommandNotFound) = (IF t.ExitCode = 127 THEN 1 ELSE 0)
            /\ Count(is, txtPullImage)
                    = (IF ~w.nil /\ w.Reason \in {"ImagePullBackOff", "ErrImagePull"}
                       THEN 1 ELSE 0)
            /\ Count(is, txtCrashing)
                    = (IF ~w.nil /\ w.Reason = "CrashLoopBackOff" THEN 1 ELSE 0)
            /\ Count(is, txtConfigError)
                    = (IF ~w.nil /\ w.Reason = "CreateContainerConfigError" THEN 1 ELSE 0)

W_C9 ==
    /\ Analyzed
    /\ ~doc.container.State.Terminated.nil
    /\ doc.container.State.Terminated.ExitCode = 137
    /\ ~doc.container.State.Waiting.nil
    /\ doc.container.State.Waiting.Reason = "ErrImagePull"
    /\ Len(doc.issues) = 2
    /\ Mentions(doc.issues[1], txtOOMKilled)
    /\ Mentions(doc.issues[2], txtPullImage)

\* The container with its last termination made the current one.
Promote(c) == [c EXCEPT !.State.Terminated = c.LastState.Terminated,
                        !.LastState = NilLastState]

\* C10: without a current termination, a last-state termination with exit
\* code 137, 1, 2 or 127 gives the issue of a current termination with that
\* code; with a current termination the last state is not consulted.
C10_LastState ==
    Analyzed =>
        LET c == doc.container
        IN  /\ (c.State.Terminated.nil /\ ~c.LastState.nil /\ ~c.LastState.Terminated.nil
                    /\ c.LastState.Terminated.ExitCode \in {137, 1, 2, 127})
                => /\ doc.issues = AnalyzeContainerState(Promote(c))
                   /\ Len(doc.issues) >= 1
                   /\ \E txt \in TerminationTexts : Mentions(doc.issues[1], txt)
            /\ ~c.State.Terminated.nil
                => doc.issues = AnalyzeContainerState([c EXCEPT !.LastState = NilLastState])

W_C10 ==
    /\ Analyzed
    /\ doc.container.State.Terminated.nil
    /\ ~doc.container.LastState.nil
    /\ ~doc.container.LastState.Terminated.nil
    /\ doc.container.LastState.Terminated.ExitCode = 127
    /\ Len(doc.issues) = 1
    /\ Mentions(doc.issues[1], txtCommandNotFound)

LogsAnalyzed == doc.phase = "logs"

\* Some phrase of the text is one of the words ws (indices of LogWords).
HasPhrase(ps, ws) == \E i \in 1..Len(ps) : ps[i].w \in ws

\* C11: AnalyzeLogs returns, in the order network, timeout, permission,
\* missing-file, exactly one issue for each rule whose phrases occur in the
\* text, whatever their letter case; the empty text gives the empty list, and
\* the text in lower and in upper case gives the result of the text itself.
C11_LogRules ==
    LogsAnalyzed =>
        LET ps == doc.phrases
        IN  /\ doc.issues =
                   (IF HasPhrase(ps, {1, 2}) THEN <<issueNetwork>> ELSE <<>>)
                   \o (IF HasPhrase(ps, {3, 4}) THEN <<issueTimeout>> ELSE <<>>)
                   \o (IF HasPhrase(ps, {5, 6}) THEN <<issuePermission>> ELSE <<>>)
                   \o (IF HasPhrase(ps, {7}) /\ HasPhrase(ps, {8, 9})
                       THEN <<issueMissingFile>> ELSE <<>>)
            /\ doc.logs = <<>> => doc.issues = <<>>
            /\ AnalyzeLogs(ToLower(doc.logs)) = doc.issues
            /\ AnalyzeLogs(ToUpper(doc.logs)) = doc.issues

W_C11 ==
    /\ LogsAnalyzed
    /\ Len(doc.phrases) = 2
    /\ doc.phrases[1] = [w |-> 8, upper |-> TRUE]
    /\ doc.phrases[2] = [w |-> 7, upper |-> FALSE]
    /\ doc.issues = <<issueMissingFile>>

----------------------------------------------------------------------------
(* Properties of the Doctor analysis *)

FindingsDone == doc.phase = "findings"

CountSeverity(fs, sev) == Cardinality({i \in 1..Len(fs) : fs[i].Severity = sev})

Crashed(code) == issueCrashedPrefix \o Itoa(code) \o issueCrashedSuffix

\* The issue strings of the two analyzers, by the class the severity rule
\* gives them.
CriticalIssues == {issueOOMKilled, issuePullImage, issueCrashLoop, issueConfigError}
WarningIssues == {Crashed(1), Crashed(2), issueCommandNotFound,
                  issueNetwork, issueTimeout, issuePermission}
OtherIssues == {issueMissingFile}

\* C12: every finding built from an analyzer issue is Critical when the
\* issue is OOMKilled, an image-pull failure, a crash-loop or a configuration
\* error, Warning when it is an exit-code, command-not-found, network,
\* timeout or permission issue, and Info otherwise.
C12_Severity ==
    FindingsDone =>
        \A i \in 1..Len(doc.Findings) :
            LET f == doc.Findings[i]
            IN  /\ f.Message \in CriticalIssues => f.Severity = SeverityCritical
                /\ f.Message \in WarningIssues => f.Severity = SeverityWarning
                /\ f.Message \in OtherIssues => f.Severity = SeverityInfo

\* The only container of the pod is Terminated with exit code 137 and has
\* not restarted.
OOMOnly ==
    /\ ~doc.container.State.Terminated.nil
    /\ doc.container.State.Terminated.ExitCode = 137
    /\ doc.container.RestartCount = 0

\* C13 as stated: for such a pod the result has exactly one Critical finding,
\* containing 'OOMKilled', and no Warning or Info finding, whatever the log
\* collaborator answers.
C13_Original ==
    (FindingsDone /\ OOMOnly) =>
        /\ CountSeverity(doc.Findings, SeverityCritical) = 1
        /\ \E i \in 1..Len(doc.Findings) :
                /\ doc.Findings[i].Severity = SeverityCritical
                /\ Mentions(doc.Findings[i].Message, txtOOMKilled)
        /\ CountSeverity(doc.Findings, SeverityWarning) = 0
        /\ CountSeverity(doc.Findings, SeverityInfo) = 0

\* C13 amended: for such a pod the result has, whatever the log collaborator
\* answers, exactly one Critical finding, containing 'OOMKilled', and no Info
\* finding; it has no Warning finding when the log collaborator fails or
\* returns a text without a log-rule phrase, and otherwise one Warning finding
\* for each log rule the text matches.
C13_OOMFinding ==
    (FindingsDone /\ OOMOnly) =>
        /\ CountSeverity(doc.Findings, SeverityCritical) = 1
        /\ doc.Findings[1].Severity = SeverityCritical
        /\ Mentions(doc.Findings[1].Message, txtOOMKilled)
        /\ CountSeverity(doc.Findings, SeverityInfo) = 0
        /\ CountSeverity(doc.Findings, SeverityWarning)
                = (IF doc.showLog.err THEN 0 ELSE Len(AnalyzeLogs(doc.showLog.logs)))
        /\ (doc.showLog.err \/ ~\E w \in 1..9 : Mentions(doc.showLog.logs, LogWords[w]))
                => Len(doc.Findings) = 1

W_C13 ==
    /\ FindingsDone
    /\ OOMOnly
    /\ ~doc.showLog.err
    /\ doc.showLog.logs = patConnectionRefused
    /\ Len(doc.Findings) = 2
    /\ doc.Findings[2] = [Severity |-> SeverityWarning, Message |-> issueNetwork]

\* A container that is waiting for a benign reason: it has not restarted and
\* no earlier termination is recorded.
BenignWaiting ==
    /\ ~doc.container.State.Waiting.nil
    /\ doc.container.State.Waiting.Reason \in {"ContainerCreating", "PodInitializing"}
    /\ doc.container.RestartCount = 0
    /\ RuleExitCode(doc.container) \notin {137, 1, 2, 127}

\* C14: the result holds one finding for each issue of the container and no
\* other entry: a container for which no rule gives an issue, such as one
\* Waiting with the reason ContainerCreating, contributes no finding at all.
C14_NoEmptyEntry ==
    FindingsDone =>
        /\ BenignWaiting => doc.Findings = <<>>
        /\ \A i \in 1..Len(doc.Findings) :
                doc.Findings[i].Message # <<>>
        /\ (/\ AnalyzeContainerState(doc.container) = <<>>
            /\ ~(doc.container.State.Running /\ doc.container.RestartCount > 3)
            /\ (doc.showLog.err \/ ~\E w \in 1..9 : Mentions(doc.showLog.logs, LogWords[w])))
                => doc.Findings = <<>>

W_C14 ==
    /\ FindingsDone
    /\ BenignWaiting
    /\ doc.container.State.Waiting.Reason = "ContainerCreating"
    /\ ~doc.showLog.err
    /\ doc.showLog.logs = patConnectionRefused
    /\ doc.Findings = <<>>

----------------------------------------------------------------------------
(* Properties of the events fetch *)

EventsFetched == doc.phase = "events"

\* The time of day a timestamp stands for.
TimeOf(ts) == 10 * (DigitOf(ts[1]) - 1) + (DigitOf(ts[2]) - 1)

RECURSIVE AllTaskRunEvents(_)
AllTaskRunEvents(trs) ==
    IF Len(trs) = 0 THEN <<>>
    ELSE Head(trs).events \o Head(trs).podEvents \o AllTaskRunEvents(Tail(trs))

\* All events the cluster returned for the resource.
ReturnedEvents == IF doc.kind = "Pod" THEN doc.items ELSE AllTaskRunEvents(doc.items)

CountAt(events, ts) == Cardinality({i \in 1..Len(events) : events[i].LastTimestamp = ts})

\* C17: the events fetch lists no event without a timestamp, lists every
\* other event of the resource, and lists them in ascending order of their
\* timestamps, for a Pod and for a PipelineRun.
C17_EventsAscending ==
    (EventsFetched /\ ~doc.msg.err) =>
        LET listed == doc.msg.listed
        IN  /\ \A i \in 1..Len(listed) : listed[i].LastTimestamp # <<>>
            /\ \A ts \in EventTimestamps \ {<<>>} :
                    CountAt(listed, ts) = CountAt(ReturnedEvents, ts)
            /\ \A i \in 1..Len(listed), j \in 1..Len(listed) :
                    i < j => TimeOf(listed[i].LastTimestamp) <= TimeOf(listed[j].LastTimestamp)

----------------------------------------------------------------------------
(* Properties of the Doctor orchestrations *)

ContainerAnalyzed == doc.phase = "analyzed"
ContainerDiagnosed == doc.phase = "diagnosed"

Unusable(log) == log.err \/ log.logs = <<>>

\* The issues AnalyzeLogs gives for an answer of the cluster.
IssuesOf(log) == IF Unusable(log) THEN <<>> ELSE AnalyzeLogs(log.logs)

\* The log requests the claim asks for, and the log that is to be analysed.
ClaimedRequests ==
    IF doc.container.RestartCount = 0 THEN <<FALSE>>
    ELSE IF Unusable(doc.previousLog) THEN <<TRUE, FALSE>>
    ELSE <<TRUE>>
ClaimedLog ==
    IF doc.container.RestartCount = 0 THEN doc.currentLog
    ELSE IF Unusable(doc.previousLog) THEN doc.currentLog
    ELSE doc.previousLog

FetchesLogs ==
    \/ ~doc.container.State.Terminated.nil
    \/ doc.container.RestartCount > 0
    \/ (~doc.container.State.Waiting.nil /\ doc.container.State.Waiting.Reason = "CrashLoopBackOff")

\* The messages of the findings that come after those of the container state
\* and of the restart count.
LogMessages(fs, c) ==
    LET n == Len(StateFindings(c)) + Len(RestartFindings(c))
    IN  [i \in 1..(Len(fs) - n) |-> fs[n + i].Message]

\* C25: an orchestration that fetches the log of a container with
\* RestartCount > 0 requests the log of the previous instance first and, when
\* that fails or is empty, the current log, which it then analyses; with
\* RestartCount = 0 it requests the current log only.
C25_LogFallback ==
    /\ (ContainerAnalyzed /\ FetchesLogs) =>
            /\ doc.requests = ClaimedRequests
            /\ LogMessages(doc.Findings, doc.container) = IssuesOf(ClaimedLog)
    /\ (ContainerDiagnosed /\ FetchesLogs) =>
            /\ doc.diagnosis.requests = ClaimedRequests
            /\ doc.diagnosis.issues
                    = AnalyzeContainerState(doc.container) \o IssuesOf(ClaimedLog)

IsStability(f) == Contains(f.Message, msgRestartedPrefix)

\* C26: the stability warning is given for a container exactly when it is
\* Running with RestartCount > 3 and nothing else was found for it, and never
\* next to another finding of the container.
C26_StandaloneStability ==
    /\ ContainerAnalyzed =>
            LET fs == doc.Findings
                warned == \E i \in 1..Len(fs) : IsStability(fs[i])
                others == {i \in 1..Len(fs) : ~IsStability(fs[i])}
            IN  /\ warned => others = {}
                /\ warned <=> (/\ doc.container.State.Running
                               /\ doc.container.RestartCount > 3
                               /\ others = {})
    /\ ContainerDiagnosed =>
            /\ doc.diagnosis.stability => doc.diagnosis.issues = <<>>
            /\ doc.diagnosis.stability <=> (/\ doc.container.State.Running
                                            /\ doc.container.RestartCount > 3
                                            /\ doc.diagnosis.issues = <<>>)

----------------------------------------------------------------------------
(* Properties of the events timeline *)

TimelinePrinted == doc.phase = "timeline"

\* The times of the events that carry a timestamp, in ascending order.
TimelineTimes ==
    LET sorted == SortFunc(ValidEvents(doc.items))
    IN  [i \in 1..Len(sorted) |-> ParseTime(sorted[i].LastTimestamp).t]

\* The time the offsets are counted from.
TimelineBase ==
    IF ParseTime(doc.creationTimestamp).err THEN TimelineTimes[1]
    ELSE ParseTime(doc.creationTimestamp).t

\* C27: every event with a timestamp gets a row whose hours, minutes (0..59)
\* and seconds (0..59) add up to the non-negative difference between the time
\* of the event and the creation time (the earliest event's time when there is
\* no creation time), and the computation does not panic.
C27_RelativeOffset ==
    TimelinePrinted =>
        /\ ~doc.out.panicked
        /\ Len(doc.out.rows) = Len(TimelineTimes)
        /\ \A i \in 1..Len(doc.out.rows) :
                LET row == doc.out.rows[i]
                IN  /\ row.minutes \in 0..59
                    /\ row.seconds \in 0..59
                    /\ row.hours * 3600 + row.minutes * 60 + row.seconds
                            = Max(TimelineTimes[i] - TimelineBase, 0)

====
